---- MODULE Spec2Model ----
(***************************************************************************)
(* Civil-time field normalization and arithmetic of cctz                   *)
(* (include/cctz/civil_time_detail.h), as a state machine over civil-time  *)
(* values.  Every function of the header is an operator computed the way   *)
(* the header computes it; the loops of n_day and of next/prev_weekday are *)
(* RECURSIVE operators that also count their iterations.                   *)
(***************************************************************************)
EXTENDS Integers, Sequences, FiniteSets, TLC

(***************************************************************************)
(* Integer arithmetic of the C++ source.                                   *)
(***************************************************************************)

\* year_t and diff_t are one signed type.  Its width is scaled down from 64
\* bits so that the extreme counts are values TLC can compute with; the
\* calendar constants (146097, 719468) still fit in it.
DiffBits == 24

diff_max == 2 ^ (DiffBits - 1) - 1
diff_min == -(2 ^ (DiffBits - 1))

InDiff(x) == diff_min <= x /\ x <= diff_max

\* bool converted to int
B(p) == IF p THEN 1 ELSE 0

\* a / b of C++ for b > 0: the quotient truncated toward zero
Quot(a, b) == IF a >= 0 THEN a \div b ELSE -((-a) \div b)

\* a % b of C++ for b > 0: the remainder takes the sign of a
Rem(a, b) == a - b * Quot(a, b)

\* static_cast to an 8-bit field type (month_t, day_t, hour_t, ...)
Cast8(x) == ((x + 128) % 256) - 128

(***************************************************************************)
(* struct fields and the unit tags.                                        *)
(***************************************************************************)

fields(year, month, day, hour, minute, second) ==
  [y |-> year, m |-> Cast8(month), d |-> Cast8(day),
   hh |-> Cast8(hour), mm |-> Cast8(minute), ss |-> Cast8(second)]

Tags == {"second", "minute", "hour", "day", "month", "year"}

(***************************************************************************)
(* namespace impl: field normalization.                                    *)
(***************************************************************************)

\* is_leap_year without the century rule (every fourth year leaps)
is_leap_year_julian(y) == Rem(y, 4) = 0

is_leap_year(y) ==
  Rem(y, 4) = 0 /\ (Rem(y, 100) # 0 \/ Rem(y, 400) = 0)

year_index(y, m) ==
  LET yi == Rem(y + B(m > 2), 400)
  IN  IF yi < 0 THEN yi + 400 ELSE yi

days_per_century(yi) == 36524 + B(yi = 0 \/ yi > 300)

days_per_4years(yi) ==
  1460 + B(yi = 0 \/ yi > 300 \/ Rem(yi - 1, 100) < 96)

days_per_year(y, m) == IF is_leap_year(y + B(m > 2)) THEN 366 ELSE 365

k_days_per_month == <<-1, 31, 28, 31, 30, 31, 30, 31, 31, 30, 31, 30, 31>>

days_per_month(y, m) ==
  k_days_per_month[m + 1] + B(m = 2 /\ is_leap_year(y))

\* The local state of n_day is a record: oey, ey, m, d and yi are the
\* variables of that name; entry is d on reaching the test d > 365; c_it,
\* q_it, y_it and m_it count the iterations of the four loops.

\* if (yi >= 400) yi -= 400
wrap400(yi) == IF yi >= 400 THEN yi - 400 ELSE yi

\* n_day up to the folding of cd and d into the 400-year cycle
n_day_fold(y, m, d, cd) ==
  LET oey == Rem(y, 400)
      cd1 == Rem(cd, 146097)
  IN  [oey |-> oey,
       ey  |-> (oey + Quot(cd, 146097) * 400 - (IF cd1 < 0 THEN 400 ELSE 0))
               + Quot(d, 146097) * 400,
       m   |-> m,
       d   |-> Rem(d, 146097) + (IF cd1 < 0 THEN cd1 + 146097 ELSE cd1),
       yi |-> 0, entry |-> 0, c_it |-> 0, q_it |-> 0, y_it |-> 0, m_it |-> 0]

\* n_day_sign leaving a d above 146097 as it is
n_day_sign_nocycle(s) ==
  IF s.d > 0
  THEN s
  ELSE IF s.d > -365
       THEN [s EXCEPT !.ey = s.ey - 1,
                      !.d = s.d + days_per_year(s.ey - 1, s.m)]
       ELSE [s EXCEPT !.ey = s.ey - 400, !.d = s.d + 146097]

\* if (d > 0) { ... } else { ... }: d is brought into [1, 146097]
n_day_sign(s) ==
  IF s.d > 0
  THEN IF s.d > 146097
       THEN [s EXCEPT !.ey = s.ey + 400, !.d = s.d - 146097]
       ELSE s
  ELSE IF s.d > -365
       THEN [s EXCEPT !.ey = s.ey - 1,
                      !.d = s.d + days_per_year(s.ey - 1, s.m)]
       ELSE [s EXCEPT !.ey = s.ey - 400, !.d = s.d + 146097]

\* the first for(;;) of n_day: whole centuries
RECURSIVE century_loop(_)
century_loop(s) ==
  IF s.d <= days_per_century(s.yi)
  THEN s
  ELSE century_loop([s EXCEPT !.d = s.d - days_per_century(s.yi),
                              !.ey = s.ey + 100,
                              !.yi = wrap400(s.yi + 100),
                              !.c_it = s.c_it + 1])

\* the second for(;;) of n_day: blocks of 4 years
RECURSIVE four_year_loop(_)
four_year_loop(s) ==
  IF s.d <= days_per_4years(s.yi)
  THEN s
  ELSE four_year_loop([s EXCEPT !.d = s.d - days_per_4years(s.yi),
                                !.ey = s.ey + 4,
                                !.yi = wrap400(s.yi + 4),
                                !.q_it = s.q_it + 1])

\* the third for(;;) of n_day: single years
RECURSIVE year_loop(_)
year_loop(s) ==
  IF s.d <= days_per_year(s.ey, s.m)
  THEN s
  ELSE year_loop([s EXCEPT !.d = s.d - days_per_year(s.ey, s.m),
                           !.ey = s.ey + 1,
                           !.y_it = s.y_it + 1])

\* if (d > 365) { ... }
n_day_years(s) ==
  IF s.d > 365
  THEN year_loop(four_year_loop(century_loop(
         [s EXCEPT !.yi = year_index(s.ey, s.m), !.entry = s.d])))
  ELSE [s EXCEPT !.entry = s.d]

\* the for(;;) of n_day under d > 28: whole months
RECURSIVE month_loop(_)
month_loop(s) ==
  IF s.d <= days_per_month(s.ey, s.m)
  THEN s
  ELSE month_loop([s EXCEPT !.d = s.d - days_per_month(s.ey, s.m),
                            !.ey = IF Cast8(s.m + 1) > 12 THEN s.ey + 1 ELSE s.ey,
                            !.m = IF Cast8(s.m + 1) > 12 THEN 1 ELSE Cast8(s.m + 1),
                            !.m_it = s.m_it + 1])

\* if (d > 28) { ... }
n_day_months(s) == IF s.d > 28 THEN month_loop(s) ELSE s

\* n_day up to its return statement
n_day_run(y, m, d, cd) ==
  n_day_months(n_day_years(n_day_sign(n_day_fold(y, m, d, cd))))

\* return fields(y + (ey - oey), m, static_cast<day_t>(d), hh, mm, ss)
n_day_return(y, s, hh, mm, ss) ==
  fields(y + (s.ey - s.oey), s.m, s.d, hh, mm, ss)

n_day(y, m, d, cd, hh, mm, ss) ==
  n_day_return(y, n_day_run(y, m, d, cd), hh, mm, ss)

\* n_mon_year without the borrow of a year for a month remainder <= 0
n_mon_year_noborrow(y, m) == IF m # 12 THEN y + Quot(m, 12) ELSE y

\* the year n_mon passes on
n_mon_year(y, m) ==
  IF m # 12
  THEN IF Rem(m, 12) <= 0 THEN (y + Quot(m, 12)) - 1 ELSE y + Quot(m, 12)
  ELSE y

\* the month n_mon passes on
n_mon_month(m) ==
  IF m # 12
  THEN IF Rem(m, 12) <= 0 THEN Rem(m, 12) + 12 ELSE Rem(m, 12)
  ELSE m

n_mon(y, m, d, cd, hh, mm, ss) ==
  n_day(n_mon_year(y, m), Cast8(n_mon_month(m)), d, cd, hh, mm, ss)

n_hour(y, m, d, cd, hh, mm, ss) ==
  n_mon(y, m, d,
        IF Rem(hh, 24) < 0 THEN (cd + Quot(hh, 24)) - 1 ELSE cd + Quot(hh, 24),
        Cast8(IF Rem(hh, 24) < 0 THEN Rem(hh, 24) + 24 ELSE Rem(hh, 24)),
        mm, ss)

n_min(y, m, d, hh, ch, mm, ss) ==
  LET ch1 == ch + Quot(mm, 60)
      mm1 == Rem(mm, 60)
      ch2 == IF mm1 < 0 THEN ch1 - 1 ELSE ch1
      mm2 == IF mm1 < 0 THEN mm1 + 60 ELSE mm1
  IN  n_hour(y, m, d, Quot(hh, 24) + Quot(ch2, 24),
             Rem(hh, 24) + Rem(ch2, 24), Cast8(mm2), ss)

n_sec(y, m, d, hh, mm, ss) ==
  IF 0 <= ss /\ ss < 60
  THEN IF 0 <= mm /\ mm < 60
       THEN IF 0 <= hh /\ hh < 24
            THEN IF 1 <= d /\ d <= 28 /\ 1 <= m /\ m <= 12
                 THEN fields(y, m, d, hh, mm, ss)
                 ELSE n_mon(y, m, d, 0, Cast8(hh), Cast8(mm), Cast8(ss))
            ELSE n_hour(y, m, d, Quot(hh, 24), Rem(hh, 24),
                        Cast8(mm), Cast8(ss))
       ELSE n_min(y, m, d, hh, Quot(mm, 60), Rem(mm, 60), Cast8(ss))
  ELSE LET cm0 == Quot(ss, 60)
           ss0 == Rem(ss, 60)
           cm  == IF ss0 < 0 THEN cm0 - 1 ELSE cm0
           ss1 == IF ss0 < 0 THEN ss0 + 60 ELSE ss0
       IN  n_min(y, m, d, hh, Quot(mm, 60) + Quot(cm, 60),
                 Rem(mm, 60) + Rem(cm, 60), Cast8(ss1))

(***************************************************************************)
(* step: increments the indicated (normalized) field by n.                 *)
(***************************************************************************)

step_second(f, n) ==
  n_sec(f.y, f.m, f.d, f.hh, f.mm + Quot(n, 60), f.ss + Rem(n, 60))

\* step_minute without the whole hours of n
step_minute_nocarry(f, n) ==
  n_min(f.y, f.m, f.d, f.hh, 0, f.mm + Rem(n, 60), f.ss)

step_minute(f, n) ==
  n_min(f.y, f.m, f.d, f.hh + Quot(n, 60), 0, f.mm + Rem(n, 60), f.ss)

step_hour(f, n) ==
  n_hour(f.y, f.m, f.d + Quot(n, 24), 0, f.hh + Rem(n, 24), f.mm, f.ss)

step_day(f, n) == n_day(f.y, f.m, f.d, n, f.hh, f.mm, f.ss)

step_month(f, n) ==
  n_mon(f.y + Quot(n, 12), f.m + Rem(n, 12), f.d, 0, f.hh, f.mm, f.ss)

step_year(f, n) == fields(f.y + n, f.m, f.d, f.hh, f.mm, f.ss)

\* overload resolution on the tag
step(T, f, n) ==
  CASE T = "second" -> step_second(f, n)
    [] T = "minute" -> step_minute(f, n)
    [] T = "hour"   -> step_hour(f, n)
    [] T = "day"    -> step_day(f, n)
    [] T = "month"  -> step_month(f, n)
    [] T = "year"   -> step_year(f, n)

(***************************************************************************)
(* The integers a normalization computes.  A trace is a record: ints are   *)
(* the values taken by the expressions of type diff_t and year_t that the  *)
(* call and its callees evaluate, yvals those of type year_t among them,   *)
(* and nday the arguments <<y, m, d, cd>> n_day is reached with (<<>> when *)
(* the call returns without reaching it).  The values are exact: one that  *)
(* is not InDiff is a signed overflow of the program.                      *)
(***************************************************************************)

NoTrace == [ints |-> {}, yvals |-> {}, nday |-> <<>>]

\* the values of a caller put before those of its callee
trace_join(ints, yvals, t) ==
  [ints |-> ints \cup yvals \cup t.ints, yvals |-> yvals \cup t.yvals,
   nday |-> t.nday]

\* year_t ey = y % 400 ... ey += (d / 146097) * 400
n_day_fold_yvals(y, m, d, cd) ==
  { Rem(y, 400),
    Rem(y, 400) + Quot(cd, 146097) * 400,
    (Rem(y, 400) + Quot(cd, 146097) * 400)
      - (IF Rem(cd, 146097) < 0 THEN 400 ELSE 0),
    n_day_fold(y, m, d, cd).ey }

\* cd / 146097 ... d = d % 146097 + cd
n_day_fold_ints(y, m, d, cd) ==
  { Quot(cd, 146097), Quot(cd, 146097) * 400, Rem(cd, 146097),
    IF Rem(cd, 146097) < 0 THEN Rem(cd, 146097) + 146097 ELSE Rem(cd, 146097),
    Quot(d, 146097), Quot(d, 146097) * 400, Rem(d, 146097),
    n_day_fold(y, m, d, cd).d }

\* the return statement of n_day adding y to ey before oey is taken off
n_day_return_yvals_early(y, s) == {y + s.ey, (y + s.ey) - s.oey}

\* y + (ey - oey)
n_day_return_yvals(y, s) == {s.ey - s.oey, y + (s.ey - s.oey)}

\* ey after the if (d > 0) block and at the return; inside the loops ey
\* only grows from the one to the other
n_day_block_yvals(y, m, d, cd) ==
  {n_day_sign(n_day_fold(y, m, d, cd)).ey, n_day_run(y, m, d, cd).ey}

\* d after the if (d > 0) block and at the return; inside the loops d
\* only shrinks from the one to the other
n_day_block_ints(y, m, d, cd) ==
  {n_day_sign(n_day_fold(y, m, d, cd)).d, n_day_run(y, m, d, cd).d}

n_day_trace(y, m, d, cd) ==
  [ints  |-> n_day_fold_ints(y, m, d, cd) \cup n_day_block_ints(y, m, d, cd)
             \cup n_day_fold_yvals(y, m, d, cd) \cup n_day_block_yvals(y, m, d, cd)
             \cup n_day_return_yvals(y, n_day_run(y, m, d, cd)),
   yvals |-> n_day_fold_yvals(y, m, d, cd) \cup n_day_block_yvals(y, m, d, cd)
             \cup n_day_return_yvals(y, n_day_run(y, m, d, cd)),
   nday  |-> <<y, m, d, cd>>]

\* n_mon adding m / 12 to the year whatever m is
n_mon_yvals_unguarded(y, m) == {y + Quot(m, 12), n_mon_year(y, m)}

\* y += m / 12 and y -= 1, under if (m != 12)
n_mon_yvals(y, m) ==
  IF m # 12 THEN {y + Quot(m, 12), n_mon_year(y, m)} ELSE {}

\* m / 12, m %= 12 and m += 12, under if (m != 12)
n_mon_ints(m) ==
  IF m # 12 THEN {Quot(m, 12), Rem(m, 12), n_mon_month(m)} ELSE {}

n_mon_trace(y, m, d, cd) ==
  trace_join(n_mon_ints(m), n_mon_yvals(y, m),
             n_day_trace(n_mon_year(y, m), Cast8(n_mon_month(m)), d, cd))

\* the cd n_hour passes on
n_hour_cd(cd, hh) ==
  IF Rem(hh, 24) < 0 THEN (cd + Quot(hh, 24)) - 1 ELSE cd + Quot(hh, 24)

\* hh / 24, cd += hh / 24, hh %= 24, hh += 24
n_hour_ints(cd, hh) ==
  { Quot(hh, 24), cd + Quot(hh, 24), n_hour_cd(cd, hh), Rem(hh, 24),
    IF Rem(hh, 24) < 0 THEN Rem(hh, 24) + 24 ELSE Rem(hh, 24) }

n_hour_trace(y, m, d, cd, hh) ==
  trace_join(n_hour_ints(cd, hh), {}, n_mon_trace(y, m, d, n_hour_cd(cd, hh)))

\* the ch n_min has after normalizing mm
n_min_ch(ch, mm) ==
  IF Rem(mm, 60) < 0 THEN (ch + Quot(mm, 60)) - 1 ELSE ch + Quot(mm, 60)

\* mm / 60 ... hh % 24 + ch % 24
n_min_ints(hh, ch, mm) ==
  { Quot(mm, 60), ch + Quot(mm, 60), n_min_ch(ch, mm), Rem(mm, 60),
    IF Rem(mm, 60) < 0 THEN Rem(mm, 60) + 60 ELSE Rem(mm, 60),
    Quot(hh, 24), Quot(n_min_ch(ch, mm), 24),
    Quot(hh, 24) + Quot(n_min_ch(ch, mm), 24),
    Rem(hh, 24), Rem(n_min_ch(ch, mm), 24),
    Rem(hh, 24) + Rem(n_min_ch(ch, mm), 24) }

n_min_trace(y, m, d, hh, ch, mm) ==
  trace_join(n_min_ints(hh, ch, mm), {},
             n_hour_trace(y, m, d, Quot(hh, 24) + Quot(n_min_ch(ch, mm), 24),
                          Rem(hh, 24) + Rem(n_min_ch(ch, mm), 24)))

\* the cm n_sec has after normalizing ss
n_sec_cm(ss) == IF Rem(ss, 60) < 0 THEN Quot(ss, 60) - 1 ELSE Quot(ss, 60)

\* ss / 60 ... mm % 60 + cm % 60
n_sec_ints(mm, ss) ==
  { Quot(ss, 60), n_sec_cm(ss), Rem(ss, 60),
    IF Rem(ss, 60) < 0 THEN Rem(ss, 60) + 60 ELSE Rem(ss, 60),
    Quot(mm, 60), Quot(n_sec_cm(ss), 60),
    Quot(mm, 60) + Quot(n_sec_cm(ss), 60),
    Rem(mm, 60), Rem(n_sec_cm(ss), 60),
    Rem(mm, 60) + Rem(n_sec_cm(ss), 60) }

n_sec_trace(y, m, d, hh, mm, ss) ==
  IF 0 <= ss /\ ss < 60
  THEN IF 0 <= mm /\ mm < 60
       THEN IF 0 <= hh /\ hh < 24
            THEN IF 1 <= d /\ d <= 28 /\ 1 <= m /\ m <= 12
                 THEN NoTrace
                 ELSE n_mon_trace(y, m, d, 0)
            ELSE trace_join({Quot(hh, 24), Rem(hh, 24)}, {},
                            n_hour_trace(y, m, d, Quot(hh, 24), Rem(hh, 24)))
       ELSE trace_join({Quot(mm, 60), Rem(mm, 60)}, {},
                       n_min_trace(y, m, d, hh, Quot(mm, 60), Rem(mm, 60)))
  ELSE trace_join(n_sec_ints(mm, ss), {},
                  n_min_trace(y, m, d, hh,
                              Quot(mm, 60) + Quot(n_sec_cm(ss), 60),
                              Rem(mm, 60) + Rem(n_sec_cm(ss), 60)))

\* the arguments of step and what it hands to the normalization
step_trace(T, f, n) ==
  CASE T = "second" ->
         trace_join({Quot(n, 60), f.mm + Quot(n, 60),
                     Rem(n, 60), f.ss + Rem(n, 60)}, {},
                    n_sec_trace(f.y, f.m, f.d, f.hh,
                                f.mm + Quot(n, 60), f.ss + Rem(n, 60)))
    [] T = "minute" ->
         trace_join({Quot(n, 60), f.hh + Quot(n, 60),
                     Rem(n, 60), f.mm + Rem(n, 60)}, {},
                    n_min_trace(f.y, f.m, f.d, f.hh + Quot(n, 60), 0,
                                f.mm + Rem(n, 60)))
    [] T = "hour" ->
         trace_join({Quot(n, 24), f.d + Quot(n, 24),
                     Rem(n, 24), f.hh + Rem(n, 24)}, {},
                    n_hour_trace(f.y, f.m, f.d + Quot(n, 24), 0,
                                 f.hh + Rem(n, 24)))
    [] T = "day" -> n_day_trace(f.y, f.m, f.d, n)
    [] T = "month" ->
         trace_join({Quot(n, 12), Rem(n, 12), f.m + Rem(n, 12)},
                    {f.y + Quot(n, 12)},
                    n_mon_trace(f.y + Quot(n, 12), f.m + Rem(n, 12), f.d, 0))
    [] T = "year" -> trace_join({}, {f.y + n}, NoTrace)

(***************************************************************************)
(* difference: the difference between two fields structs in a unit.        *)
(***************************************************************************)

\* (v * f + a), multiplying one step short of v and adding f back
scale_add(v, f, a) ==
  IF v < 0 THEN ((v + 1) * f + a) - f ELSE ((v - 1) * f + a) + f

\* ymd_ord without the century correction of the leap days
ymd_ord_nocentury(y, m, d) ==
  LET eyear == IF m <= 2 THEN y - 1 ELSE y
      era   == Quot(IF eyear >= 0 THEN eyear ELSE eyear - 399, 400)
      yoe   == eyear - era * 400
      doy   == Quot(153 * (m + (IF m > 2 THEN -3 ELSE 9)) + 2, 5) + d - 1
      doe   == yoe * 365 + Quot(yoe, 4) + doy
  IN  era * 146097 + doe - 719468

\* days of a normalized Y/M/D before/after 1970-01-01
ymd_ord(y, m, d) ==
  LET eyear == IF m <= 2 THEN y - 1 ELSE y
      era   == Quot(IF eyear >= 0 THEN eyear ELSE eyear - 399, 400)
      yoe   == eyear - era * 400
      doy   == Quot(153 * (m + (IF m > 2 THEN -3 ELSE 9)) + 2, 5) + d - 1
      doe   == yoe * 365 + Quot(yoe, 4) - Quot(yoe, 100) + doy
  IN  era * 146097 + doe - 719468

\* the if / else if of day_difference: the two accumulators before
\* (c4_diff0, delta0) and after the two-cycle correction
\* day_difference_fix moving delta by one cycle and c4_diff by two
day_difference_fix_onecycle(c4_diff, delta) ==
  IF c4_diff > 0 /\ delta < 0
  THEN [c4_diff0 |-> c4_diff, delta0 |-> delta, fixed |-> TRUE,
        c4_diff |-> c4_diff - 2 * 400, delta |-> delta + 146097]
  ELSE IF c4_diff < 0 /\ delta > 0
       THEN [c4_diff0 |-> c4_diff, delta0 |-> delta, fixed |-> TRUE,
             c4_diff |-> c4_diff + 2 * 400, delta |-> delta - 146097]
       ELSE [c4_diff0 |-> c4_diff, delta0 |-> delta, fixed |-> FALSE,
             c4_diff |-> c4_diff, delta |-> delta]

day_difference_fix(c4_diff, delta) ==
  IF c4_diff > 0 /\ delta < 0
  THEN [c4_diff0 |-> c4_diff, delta0 |-> delta, fixed |-> TRUE,
        c4_diff |-> c4_diff - 2 * 400, delta |-> delta + 2 * 146097]
  ELSE IF c4_diff < 0 /\ delta > 0
       THEN [c4_diff0 |-> c4_diff, delta0 |-> delta, fixed |-> TRUE,
             c4_diff |-> c4_diff + 2 * 400, delta |-> delta - 2 * 146097]
       ELSE [c4_diff0 |-> c4_diff, delta0 |-> delta, fixed |-> FALSE,
             c4_diff |-> c4_diff, delta |-> delta]

\* day_difference up to its return statement
day_difference_run(y1, m1, d1, y2, m2, d2) ==
  day_difference_fix((y1 - Rem(y1, 400)) - (y2 - Rem(y2, 400)),
                     ymd_ord(Rem(y1, 400), m1, d1)
                       - ymd_ord(Rem(y2, 400), m2, d2))

\* return (c4_diff / 400 * 146097) + delta
day_difference_return(s) == (Quot(s.c4_diff, 400) * 146097) + s.delta

day_difference(y1, m1, d1, y2, m2, d2) ==
  day_difference_return(day_difference_run(y1, m1, d1, y2, m2, d2))

difference_year(f1, f2) == f1.y - f2.y

difference_month(f1, f2) ==
  scale_add(difference_year(f1, f2), 12, f1.m - f2.m)

difference_day(f1, f2) ==
  day_difference(f1.y, f1.m, f1.d, f2.y, f2.m, f2.d)

difference_hour(f1, f2) ==
  scale_add(difference_day(f1, f2), 24, f1.hh - f2.hh)

difference_minute(f1, f2) ==
  scale_add(difference_hour(f1, f2), 60, f1.mm - f2.mm)

difference_second(f1, f2) ==
  scale_add(difference_minute(f1, f2), 60, f1.ss - f2.ss)

\* overload resolution on the tag
difference(T, f1, f2) ==
  CASE T = "second" -> difference_second(f1, f2)
    [] T = "minute" -> difference_minute(f1, f2)
    [] T = "hour"   -> difference_hour(f1, f2)
    [] T = "day"    -> difference_day(f1, f2)
    [] T = "month"  -> difference_month(f1, f2)
    [] T = "year"   -> difference_year(f1, f2)

(***************************************************************************)
(* align: aligns the (normalized) fields struct to the indicated field.    *)
(***************************************************************************)

\* align with the day case aligning to the hour
align_day_as_hour(T, f) ==
  CASE T = "second" -> f
    [] T = "minute" -> fields(f.y, f.m, f.d, f.hh, f.mm, 0)
    [] T = "hour"   -> fields(f.y, f.m, f.d, f.hh, 0, 0)
    [] T = "day"    -> fields(f.y, f.m, f.d, f.hh, 0, 0)
    [] T = "month"  -> fields(f.y, f.m, 1, 0, 0, 0)
    [] T = "year"   -> fields(f.y, 1, 1, 0, 0, 0)

align(T, f) ==
  CASE T = "second" -> f
    [] T = "minute" -> fields(f.y, f.m, f.d, f.hh, f.mm, 0)
    [] T = "hour"   -> fields(f.y, f.m, f.d, f.hh, 0, 0)
    [] T = "day"    -> fields(f.y, f.m, f.d, 0, 0, 0)
    [] T = "month"  -> fields(f.y, f.m, 1, 0, 0, 0)
    [] T = "year"   -> fields(f.y, 1, 1, 0, 0, 0)

(***************************************************************************)
(* class civil_time<T>: a value is its fields f_; its unit T is its type.  *)
(***************************************************************************)

\* the designated constructor, civil_time(fields f)
civil_time_fields(T, f) == align(T, f)

\* civil_time(y, m, d, hh, mm, ss)
civil_time(T, y, m, d, hh, mm, ss) ==
  civil_time_fields(T, n_sec(y, m, d, hh, mm, ss))

\* civil_time()
civil_time_default == [y |-> 1970, m |-> 1, d |-> 1, hh |-> 0, mm |-> 0, ss |-> 0]

\* the arguments max() and min() construct from
max_fields == <<diff_max, 12, 31, 23, 59, 59>>

min_fields == <<diff_min, 1, 1, 0, 0, 0>>

\* civil_time<T>::max()
max(T) ==
  civil_time(T, max_fields[1], max_fields[2], max_fields[3],
             max_fields[4], max_fields[5], max_fields[6])

\* civil_time<T>::min()
min(T) ==
  civil_time(T, min_fields[1], min_fields[2], min_fields[3],
             min_fields[4], min_fields[5], min_fields[6])

\* civil_time(const civil_time<U>& ct), implicit or explicit
civil_time_convert(T, f) == civil_time_fields(T, f)

\* operator+(civil_time a, diff_t n)
plus(T, f, n) == civil_time_fields(T, step(T, f, n))

\* operator- without the closing step by 1 for the minimum count
minus_min_unstepped(T, f, n) ==
  IF n # diff_min
  THEN civil_time_fields(T, step(T, f, -n))
  ELSE civil_time_fields(T, step(T, f, -(n + 1)))

\* operator-(civil_time a, diff_t n)
minus(T, f, n) ==
  IF n # diff_min
  THEN civil_time_fields(T, step(T, f, -n))
  ELSE civil_time_fields(T, step(T, step(T, f, -(n + 1)), 1))

\* operator-(civil_time lhs, civil_time rhs)
minus_ct(T, lhs, rhs) == difference(T, lhs, rhs)

(***************************************************************************)
(* Relational operators; they compare all six fields of any two units.     *)
(***************************************************************************)

\* operator< without the day field
Lt_noday(lhs, rhs) ==
  (lhs.y < rhs.y \/
   (lhs.y = rhs.y /\
    (lhs.m < rhs.m \/
     (lhs.m = rhs.m /\
      (lhs.hh < rhs.hh \/
       (lhs.hh = rhs.hh /\
        (lhs.mm < rhs.mm \/
         (lhs.mm = rhs.mm /\
          (lhs.ss < rhs.ss)))))))))

Lt(lhs, rhs) ==
  (lhs.y < rhs.y \/
   (lhs.y = rhs.y /\
    (lhs.m < rhs.m \/
     (lhs.m = rhs.m /\
      (lhs.d < rhs.d \/
       (lhs.d = rhs.d /\
        (lhs.hh < rhs.hh \/
         (lhs.hh = rhs.hh /\
          (lhs.mm < rhs.mm \/
           (lhs.mm = rhs.mm /\
            (lhs.ss < rhs.ss)))))))))))

Le(lhs, rhs) == ~Lt(rhs, lhs)

Ge(lhs, rhs) == ~Lt(lhs, rhs)

Gt(lhs, rhs) == Lt(rhs, lhs)

Eq(lhs, rhs) ==
  lhs.y = rhs.y /\ lhs.m = rhs.m /\ lhs.d = rhs.d /\
  lhs.hh = rhs.hh /\ lhs.mm = rhs.mm /\ lhs.ss = rhs.ss

Ne(lhs, rhs) == ~Eq(lhs, rhs)

(***************************************************************************)
(* Weekdays and year days.                                                 *)
(***************************************************************************)

Weekdays ==
  {"monday", "tuesday", "wednesday", "thursday", "friday", "saturday", "sunday"}

k_weekday_by_mon_off ==
  <<"monday", "tuesday", "wednesday", "thursday", "friday", "saturday",
    "sunday", "monday", "tuesday", "wednesday", "thursday", "friday",
    "saturday">>

k_weekday_offsets == <<-1, 0, 3, 2, 5, 0, 3, 5, 1, 4, 6, 2, 4>>

\* weekday_index without the year adjustment for January and February
weekday_index_noadjust(cs) ==
  LET wd0 == 2400 + Rem(cs.y, 400)
      wd1 == wd0 + (Quot(wd0, 4) - Quot(wd0, 100) + Quot(wd0, 400))
      wd2 == wd1 + (k_weekday_offsets[cs.m + 1] + cs.d)
  IN  Rem(wd2, 7) + 6

\* the index get_weekday reads k_weekday_by_mon_off at (0-based)
weekday_index(cs) ==
  LET wd0 == 2400 + Rem(cs.y, 400) - B(cs.m < 3)
      wd1 == wd0 + (Quot(wd0, 4) - Quot(wd0, 100) + Quot(wd0, 400))
      wd2 == wd1 + (k_weekday_offsets[cs.m + 1] + cs.d)
  IN  Rem(wd2, 7) + 6

get_weekday(cs) == k_weekday_by_mon_off[weekday_index(cs) + 1]

k_weekdays_forw ==
  <<"monday", "tuesday", "wednesday", "thursday", "friday", "saturday",
    "sunday", "monday", "tuesday", "wednesday", "thursday", "friday",
    "saturday", "sunday">>

k_weekdays_back ==
  <<"sunday", "saturday", "friday", "thursday", "wednesday", "tuesday",
    "monday", "sunday", "saturday", "friday", "thursday", "wednesday",
    "tuesday", "monday">>

\* for (int i = 0;; ++i) if (base == table[i]): the first such i (0-based)
RECURSIVE find_from(_, _, _)
find_from(table, wd, i) ==
  IF wd = table[i + 1] THEN i ELSE find_from(table, wd, i + 1)

\* the two indices next_weekday stops at
\* the inner loop started at j = i
find_pair_from_i(table, wd, i) == [i |-> i, j |-> find_from(table, wd, i)]

\* the inner for (int j = i + 1;; ++j)
find_pair(table, wd, i) == [i |-> i, j |-> find_from(table, wd, i + 1)]

next_weekday_run(cd, wd) ==
  find_pair(k_weekdays_forw, wd, find_from(k_weekdays_forw, get_weekday(cd), 0))

\* return cd + (j - i)
next_weekday_return(cd, s) == plus("day", cd, s.j - s.i)

next_weekday(cd, wd) == next_weekday_return(cd, next_weekday_run(cd, wd))

\* the two indices prev_weekday stops at
prev_weekday_run(cd, wd) ==
  find_pair(k_weekdays_back, wd, find_from(k_weekdays_back, get_weekday(cd), 0))

\* return cd - (j - i)
prev_weekday_return(cd, s) == minus("day", cd, s.j - s.i)

prev_weekday(cd, wd) == prev_weekday_return(cd, prev_weekday_run(cd, wd))

k_month_offsets == <<-1, 0, 31, 59, 90, 120, 151, 181, 212, 243, 273, 304, 334>>

\* get_yearday adding the leap day in every month of a leap year
get_yearday_anymonth(cs) ==
  k_month_offsets[cs.m + 1] + B(is_leap_year(cs.y)) + cs.d

get_yearday(cs) ==
  LET feb29 == B(cs.m > 2 /\ is_leap_year(cs.y))
  IN  k_month_offsets[cs.m + 1] + feb29 + cs.d

(***************************************************************************)
(* Bounds of the model.                                                    *)
(***************************************************************************)

\* raw constructor arguments
RawYears  == {-401, -1, 0, 1900, 2000}
RawMonths == {-11, 0, 2, 3, 12, 13}
RawDays   == {-366, -365, -364, 0, 1, 29, 31, 32, 367}
RawHours  == {-25, -1, 0, 24}
RawMins   == {-61, 0, 60}
RawSecs   == {-1, 59, 3661}

\* the dates the out-of-range clock fields are tried on
RawAnchors == {<<1970, 1, 1>>, <<2000, 2, 28>>, <<-1, 12, 31>>}

\* the constructions quoted by the documentation, and the extreme fields
RawFixtures ==
  {<<2016, 2, 30, 0, 0, 0>>, <<2016, 3, 1, 0, 0, 0>>,
   <<1, 13, 1, 0, 0, 0>>, <<2, 1, 1, 0, 0, 0>>,
   <<1970, 1, 1, -1, 0, 0>>, <<1969, 12, 31, 23, 0, 0>>,
   <<2000, 1, 1, 0, 0, 0>>, <<2004, 2, 29, 12, 30, 30>>,
   <<2015, 12, 31, 23, 59, 59>>, <<2016, 12, 31, 23, 59, 59>>,
   <<1999, 12, 31, 23, 59, 59>>, <<-400, 2, 29, 23, 59, 59>>,
   <<1970, 1, 146098, 0, 0, 0>>, <<1970, 1, -146097, 0, 0, 0>>,
   <<1970, 1, 1, 0, 0, diff_max>>, <<1970, 1, 1, 0, 0, diff_min>>,
   <<1970, 1, 1, 0, diff_max, 0>>, <<1970, 1, 1, diff_min, 0, 0>>,
   <<1970, diff_max, 1, 0, 0, 0>>, <<1970, 1, diff_min, 0, 0, 0>>,
   <<0, diff_min, diff_max, 0, 0, 0>>,
   <<diff_max, 1, 1, 0, 0, 0>>, <<diff_max, 2, 28, 23, 59, 59>>,
   <<diff_min, 12, 31, 23, 59, 59>>, <<diff_min, 3, 1, 0, 0, 0>>}

RawInputs ==
  RawFixtures
  \cup {<<y, m, d, 0, 0, 0>> : y \in RawYears, m \in RawMonths, d \in RawDays}
  \cup {<<x[1], x[2], x[3], hh, mm, ss>> :
          x \in RawAnchors, hh \in RawHours, mm \in RawMins, ss \in RawSecs}

\* the counts values are stepped by
Counts == {diff_min, -146098, -367, -61, -1, 0, 1, 13, 366, diff_max}

(***************************************************************************)
(* The state: a civil-time value r of unit tr, the value a of unit ta it   *)
(* was computed from, and what the last operation was given and returned.  *)
(* A run constructs a value, applies one operation to it and reads the     *)
(* result with one of the queries.                                         *)
(***************************************************************************)

VARIABLES a, ta, r, tr, op, arg, res, wday, rel

vars == <<a, ta, r, tr, op, arg, res, wday, rel>>

\* the operations that leave a freshly constructed value in r
ConstructOps == {"default", "construct", "max", "min"}

QueryOps == {"difference", "compare", "get_weekday", "get_yearday"}

NoRel == [lt |-> FALSE, le |-> FALSE, gt |-> FALSE, ge |-> FALSE,
          eq |-> FALSE, ne |-> FALSE]

\* civil_time<T>()
InitDefault ==
  /\ tr \in Tags
  /\ ta = tr
  /\ r = civil_time_default
  /\ a = r
  /\ op = "default"
  /\ arg = <<>>

\* civil_time<T>(y, m, d, hh, mm, ss)
InitConstruct ==
  \E T \in Tags, raw \in RawInputs :
    LET v == civil_time(T, raw[1], raw[2], raw[3], raw[4], raw[5], raw[6])
    IN  /\ InDiff(v.y)
        /\ r = v
        /\ tr = T
        /\ a = v
        /\ ta = T
        /\ op = "construct"
        /\ arg = raw

\* civil_time<T>::max()
InitMax ==
  /\ tr \in Tags
  /\ ta = tr
  /\ r = max(tr)
  /\ a = r
  /\ op = "max"
  /\ arg = max_fields

\* civil_time<T>::min()
InitMin ==
  /\ tr \in Tags
  /\ ta = tr
  /\ r = min(tr)
  /\ a = r
  /\ op = "min"
  /\ arg = min_fields

\* a freshly constructed value, nothing queried yet
Init ==
  /\ InitDefault \/ InitConstruct \/ InitMax \/ InitMin
  /\ res = 0
  /\ wday = "monday"
  /\ rel = NoRel

\* civil_time<T>(const civil_time<U>&)
Convert(T) ==
  /\ op \in ConstructOps
  /\ a' = r
  /\ ta' = tr
  /\ r' = civil_time_convert(T, r)
  /\ tr' = T
  /\ op' = "convert"
  /\ arg' = <<>>
  /\ UNCHANGED <<res, wday, rel>>

\* r + n
Plus(n) ==
  LET v == plus(tr, r, n)
  IN  /\ op \in ConstructOps
      /\ InDiff(v.y)
      /\ a' = r
      /\ ta' = tr
      /\ r' = v
      /\ op' = "plus"
      /\ arg' = <<n>>
      /\ UNCHANGED <<tr, res, wday, rel>>

\* r - n
Minus(n) ==
  LET v == minus(tr, r, n)
  IN  /\ op \in ConstructOps
      /\ InDiff(v.y)
      /\ a' = r
      /\ ta' = tr
      /\ r' = v
      /\ op' = "minus"
      /\ arg' = <<n>>
      /\ UNCHANGED <<tr, res, wday, rel>>

\* next_weekday(r, wd), r a civil_day
NextWeekday(wd) ==
  /\ op \in ConstructOps
  /\ tr = "day"
  /\ a' = r
  /\ ta' = tr
  /\ r' = next_weekday(r, wd)
  /\ op' = "next_weekday"
  /\ arg' = <<wd>>
  /\ UNCHANGED <<tr, res, wday, rel>>

\* prev_weekday(r, wd), r a civil_day
PrevWeekday(wd) ==
  /\ op \in ConstructOps
  /\ tr = "day"
  /\ a' = r
  /\ ta' = tr
  /\ r' = prev_weekday(r, wd)
  /\ op' = "prev_weekday"
  /\ arg' = <<wd>>
  /\ UNCHANGED <<tr, res, wday, rel>>

\* r - a, both of one unit
Difference ==
  /\ op \notin QueryOps
  /\ ta = tr
  /\ res' = minus_ct(tr, r, a)
  /\ op' = "difference"
  /\ UNCHANGED <<a, ta, r, tr, arg, wday, rel>>

\* a < r, a <= r, a > r, a >= r, a == r, a != r, of any two units
Compare ==
  /\ op \notin QueryOps
  /\ rel' = [lt |-> Lt(a, r), le |-> Le(a, r), gt |-> Gt(a, r),
             ge |-> Ge(a, r), eq |-> Eq(a, r), ne |-> Ne(a, r)]
  /\ op' = "compare"
  /\ UNCHANGED <<a, ta, r, tr, arg, res, wday>>

\* get_weekday(r)
GetWeekday ==
  /\ op \notin QueryOps
  /\ wday' = get_weekday(r)
  /\ op' = "get_weekday"
  /\ UNCHANGED <<a, ta, r, tr, arg, res, rel>>

\* get_yearday(r)
GetYearday ==
  /\ op \notin QueryOps
  /\ res' = get_yearday(r)
  /\ op' = "get_yearday"
  /\ UNCHANGED <<a, ta, r, tr, arg, wday, rel>>

Next ==
  \/ \E T \in Tags : Convert(T)
  \/ \E n \in Counts : Plus(n)
  \/ \E n \in Counts : Minus(n)
  \/ \E wd \in Weekdays : NextWeekday(wd)
  \/ \E wd \in Weekdays : PrevWeekday(wd)
  \/ Difference
  \/ Compare
  \/ GetWeekday
  \/ GetYearday

Spec == Init /\ [][Next]_vars

(***************************************************************************)
(* The proleptic Gregorian calendar, stated without the header's           *)
(* algorithms: what the properties below compare the header against.       *)
(***************************************************************************)

\* divisible by 4 and (not divisible by 100 or divisible by 400)
RefLeap(y) == y % 4 = 0 /\ (y % 100 # 0 \/ y % 400 = 0)

RefDaysInMonth(y, m) ==
  IF m = 2 THEN (IF RefLeap(y) THEN 29 ELSE 28)
  ELSE IF m \in {4, 6, 9, 11} THEN 30 ELSE 31

Canonical(f) ==
  /\ 1 <= f.m /\ f.m <= 12
  /\ 1 <= f.d /\ f.d <= RefDaysInMonth(f.y, f.m)
  /\ 0 <= f.hh /\ f.hh <= 23
  /\ 0 <= f.mm /\ f.mm <= 59
  /\ 0 <= f.ss /\ f.ss <= 59

\* days of year y before its month m
RECURSIVE RefDaysBeforeMonth(_, _)
RefDaysBeforeMonth(y, m) ==
  IF m <= 1 THEN 0
  ELSE RefDaysBeforeMonth(y, m - 1) + RefDaysInMonth(y, m - 1)

\* leap years among the first k years of a 400-year cycle
RefLeapsBefore(k) == (k + 3) \div 4 - (k + 99) \div 100 + (k + 399) \div 400

\* days from January 1 of the first year of the date's 400-year cycle
RefDayInCycle(f) ==
  365 * (f.y % 400) + RefLeapsBefore(f.y % 400)
    + RefDaysBeforeMonth(f.y, f.m) + (f.d - 1)

\* days from the date of f2 to the date of f1; a cycle has 146097 days
RefDayDiff(f1, f2) ==
  (f1.y \div 400 - f2.y \div 400) * 146097
    + (RefDayInCycle(f1) - RefDayInCycle(f2))

WeekdaySeq ==
  <<"monday", "tuesday", "wednesday", "thursday", "friday", "saturday",
    "sunday">>

\* the weekday counted from 1970-01-01, a Thursday; 146097 is 7 * 20871,
\* so whole cycles do not move the weekday
RefWeekday(f) ==
  WeekdaySeq[((RefDayInCycle(f) - RefDayInCycle(civil_time_default) + 3) % 7) + 1]

RefSuccWeekday(wd) ==
  CHOOSE x \in Weekdays :
    \E i \in 1..7 : WeekdaySeq[i] = wd /\ WeekdaySeq[(i % 7) + 1] = x

AsFields(raw) ==
  [y |-> raw[1], m |-> raw[2], d |-> raw[3],
   hh |-> raw[4], mm |-> raw[5], ss |-> raw[6]]

AsTuple(f) == <<f.y, f.m, f.d, f.hh, f.mm, f.ss>>

\* the six-field lexicographic order
LexLess(s, t) ==
  \E i \in 1..6 : s[i] < t[i] /\ \A j \in 1..(i - 1) : s[j] = t[j]

(***************************************************************************)
(* Properties.                                                             *)
(***************************************************************************)

\* C1: every civil-time value, constructed from raw fields, stepped or
\* converted, has canonical fields: month in 1..12, day in 1..days of that
\* month (February has 29 days exactly in years divisible by 4 and not by
\* 100, or divisible by 400), hour in 0..23, minute and second in 0..59.
C1_CanonicalFields == Canonical(r) /\ Canonical(a)

\* C1 is exercised: 1900-02-29 was constructed and became 1900-03-01
C1_Witness ==
  /\ op = "construct"
  /\ arg = <<1900, 2, 29, 0, 0, 0>>
  /\ r.m = 3 /\ r.d = 1

\* the clock fields and the day offset the raw fields denote
RefMinutes(raw) == raw[5] + (raw[6] \div 60)
RefHours(raw) == raw[4] + (RefMinutes(raw) \div 60)
RefDays(raw) == (raw[3] - 1) + (RefHours(raw) \div 24)
RefMonthStart(raw) ==
  [y |-> raw[1] + ((raw[2] - 1) \div 12), m |-> ((raw[2] - 1) % 12) + 1,
   d |-> 1, hh |-> 0, mm |-> 0, ss |-> 0]

\* C2: a second-unit value constructed from any (y, m, d, hh, mm, ss) is
\* the canonical civil time of the instant (d - 1) days, hh hours, mm
\* minutes and ss seconds after 00:00:00 on the first day of the month
\* (m - 1) months after January of year y; the quoted constructions give
\* the quoted values and canonical fields are returned unchanged.
C2_ConstructIsInstant ==
  (op = "construct" /\ tr = "second") =>
    /\ Canonical(r)
    /\ r.ss = arg[6] % 60
    /\ r.mm = RefMinutes(arg) % 60
    /\ r.hh = RefHours(arg) % 24
    /\ RefDayDiff(r, RefMonthStart(arg)) = RefDays(arg)
    /\ (arg = <<2016, 2, 30, 0, 0, 0>> => AsTuple(r) = <<2016, 3, 1, 0, 0, 0>>)
    /\ (arg = <<1, 13, 1, 0, 0, 0>> => AsTuple(r) = <<2, 1, 1, 0, 0, 0>>)
    /\ (arg = <<1970, 1, 1, -1, 0, 0>> => AsTuple(r) = <<1969, 12, 31, 23, 0, 0>>)
    /\ (Canonical(AsFields(arg)) => AsTuple(r) = arg)

\* C2 is exercised: an hour of -1 was constructed into the previous year
C2_Witness ==
  /\ op = "construct" /\ tr = "second"
  /\ arg = <<1970, 1, 1, -1, 0, 0>>
  /\ r.y = 1969

\* C3: when r is a + n, r - n is a again, at every unit, also for n the
\* minimum of the count type.
C3_PlusThenMinus ==
  (op = "plus") => minus(tr, r, arg[1]) = a

\* C3 is exercised: a value was stepped by the minimum count
C3_Witness ==
  /\ op = "plus" /\ arg = <<diff_min>>
  /\ tr = "month"
  /\ r # a

\* C4: subtraction of same-unit values inverts stepping: when r is a + n,
\* r - a is n; and for the two values a, r of one unit of any state whose
\* difference is a count, a + (r - a) is r and r + (a - r) is a.
C4_DifferenceInvertsStep ==
  /\ (op = "plus") => difference(tr, r, a) = arg[1]
  /\ (op = "difference") => res = difference(tr, r, a)
  /\ (ta = tr /\ InDiff(difference(tr, r, a))) =>
       plus(tr, a, difference(tr, r, a)) = r
  /\ (ta = tr /\ InDiff(difference(tr, a, r))) =>
       plus(tr, r, difference(tr, a, r)) = a

\* C4 is exercised: the difference of two days on either side of year 0
C4_Witness ==
  /\ op = "difference" /\ tr = "day"
  /\ a.y = -1 /\ r.y = 0
  /\ res = 1

\* C5: stepping is strictly monotonic: when r is a + n, then for every
\* other count n2 whose result is representable, a + n2 is after r if
\* n < n2 and before r if n2 < n, in the six-field lexicographic order.
C5_StepMonotonic ==
  (op = "plus") =>
    \A n2 \in Counts :
      InDiff(plus(tr, a, n2).y) =>
        /\ (arg[1] < n2 => LexLess(AsTuple(r), AsTuple(plus(tr, a, n2))))
        /\ (n2 < arg[1] => LexLess(AsTuple(plus(tr, a, n2)), AsTuple(r)))
        /\ (arg[1] < n2 => Lt(r, plus(tr, a, n2)))

\* C5 is exercised: a minute-unit value was stepped across an hour
C5_Witness ==
  /\ op = "plus" /\ tr = "minute"
  /\ arg = <<1>>
  /\ a.mm = 59 /\ r.mm = 0

\* the fields finer than unit T
FinerClock(T) ==
  CASE T = "second" -> {}
    [] T = "minute" -> {"ss"}
    [] T = "hour"   -> {"ss", "mm"}
    [] OTHER        -> {"ss", "mm", "hh"}

FinerDate(T) ==
  CASE T = "month" -> {"d"}
    [] T = "year"  -> {"d", "m"}
    [] OTHER       -> {}

\* C6 as stated: every field finer than the value's unit reads as zero.
C6_FinerFieldsZero ==
  \A k \in FinerClock(tr) \cup FinerDate(tr) : r[k] = 0

\* C6, amended: the hour, minute and second fields finer than the value's
\* unit read as zero; the day and month fields finer than it read as one.
C6_FinerFieldsAligned ==
  /\ \A k \in FinerClock(tr) : r[k] = 0
  /\ \A k \in FinerDate(tr) : r[k] = 1
  /\ \A k \in FinerClock(ta) : a[k] = 0
  /\ \A k \in FinerDate(ta) : a[k] = 1

\* C6 is exercised: a second-unit value with all fields set was narrowed
\* to a year
C6_Witness ==
  /\ op = "convert" /\ ta = "second" /\ tr = "year"
  /\ a.m > 1 /\ a.d > 1 /\ a.hh > 0 /\ a.mm > 0 /\ a.ss > 0
  /\ r.m = 1 /\ r.d = 1

\* C7: for values of any two units, < is the lexicographic order on the
\* six fields and == is equality of the six fields; exactly one of a < r,
\* a == r, r < a holds, and <=, >, >=, != agree with them.
C7_CompareAllFields ==
  /\ Lt(a, r) <=> LexLess(AsTuple(a), AsTuple(r))
  /\ Lt(r, a) <=> LexLess(AsTuple(r), AsTuple(a))
  /\ Eq(a, r) <=> AsTuple(a) = AsTuple(r)
  /\ B(Lt(a, r)) + B(Eq(a, r)) + B(Lt(r, a)) = 1
  /\ Le(a, r) <=> (Lt(a, r) \/ Eq(a, r))
  /\ Gt(a, r) <=> Lt(r, a)
  /\ Ge(a, r) <=> (Lt(r, a) \/ Eq(a, r))
  /\ Ne(a, r) <=> ~Eq(a, r)
  /\ (op = "compare") =>
       /\ rel.lt <=> LexLess(AsTuple(a), AsTuple(r))
       /\ rel.eq <=> AsTuple(a) = AsTuple(r)
       /\ rel.gt <=> LexLess(AsTuple(r), AsTuple(a))
       /\ rel.le <=> ~rel.gt
       /\ rel.ge <=> ~rel.lt
       /\ rel.ne <=> ~rel.eq

\* C7 is exercised: a day and the second it was widened to compare equal
C7_Witness ==
  /\ op = "compare"
  /\ ta = "day" /\ tr = "second"
  /\ rel.eq /\ ~rel.lt /\ ~rel.gt

\* C8: next_weekday(a, wd) is a day of weekday wd, 1 to 7 days after a,
\* and prev_weekday(a, wd) a day of weekday wd, 1 to 7 days before a;
\* the distance is 7 when wd is a's own weekday; both searches stop inside
\* their 14-entry tables.
C8_WeekdaySearch ==
  /\ (op = "next_weekday") =>
       /\ get_weekday(r) = arg[1]
       /\ RefDayDiff(r, a) \in 1..7
       /\ Lt(a, r)
       /\ (arg[1] = get_weekday(a) => RefDayDiff(r, a) = 7)
       /\ next_weekday_run(a, arg[1]).j \in 1..13
  /\ (op = "prev_weekday") =>
       /\ get_weekday(r) = arg[1]
       /\ RefDayDiff(a, r) \in 1..7
       /\ Lt(r, a)
       /\ (arg[1] = get_weekday(a) => RefDayDiff(a, r) = 7)
       /\ prev_weekday_run(a, arg[1]).j \in 1..13

\* C8 is exercised: the next Thursday after Thursday 1970-01-01
C8_Witness ==
  /\ op = "next_weekday" /\ arg = <<"thursday">>
  /\ AsTuple(a) = <<1970, 1, 1, 0, 0, 0>>
  /\ AsTuple(r) = <<1970, 1, 8, 0, 0, 0>>

\* C9: get_weekday is the weekday counted from Thursday 1970-01-01 modulo
\* 7, in every year; 1970-01-01 is a Thursday and 2000-01-01 a Saturday;
\* the next day has the next weekday; the table index is inside 0..12.
C9_Weekday ==
  /\ get_weekday(r) = RefWeekday(r)
  /\ weekday_index(r) \in 0..12
  /\ (r.y = 1970 /\ r.m = 1 /\ r.d = 1) => get_weekday(r) = "thursday"
  /\ (r.y = 2000 /\ r.m = 1 /\ r.d = 1) => get_weekday(r) = "saturday"
  /\ InDiff(r.y + 1) =>
       get_weekday(plus("day", civil_time_convert("day", r), 1))
         = RefSuccWeekday(get_weekday(r))
  /\ (op = "get_weekday") => wday = RefWeekday(r)

\* C9 is exercised: the weekday of a date in a negative year was read
C9_Witness ==
  /\ op = "get_weekday"
  /\ AsTuple(r) = <<-1, 12, 31, 0, 0, 0>>
  /\ wday = "friday"

\* January 1 of the year of f
JanuaryFirst(f) == [y |-> f.y, m |-> 1, d |-> 1, hh |-> 0, mm |-> 0, ss |-> 0]

\* C10: get_yearday is 1 plus the days from January 1 of the year to the
\* date: 1 on January 1, and on December 31 it is 366 in a leap year and
\* 365 otherwise.
C10_Yearday ==
  /\ get_yearday(r) = 1 + difference("day", r, JanuaryFirst(r))
  /\ get_yearday(r) = 1 + RefDayDiff(r, JanuaryFirst(r))
  /\ (r.m = 1 /\ r.d = 1) => get_yearday(r) = 1
  /\ (r.m = 12 /\ r.d = 31) =>
       get_yearday(r) = (IF RefLeap(r.y) THEN 366 ELSE 365)
  /\ (op = "get_yearday") => res = get_yearday(r)

\* C10 is exercised: the year day of December 31 of a leap year was read
C10_Witness ==
  /\ op = "get_yearday"
  /\ r.m = 12 /\ r.d = 31
  /\ res = 366

(***************************************************************************)
(* Overflow.                                                               *)
(***************************************************************************)

\* the normalization trace of the constructor call that arg records
ConstructTrace ==
  n_sec_trace(arg[1], arg[2], arg[3], arg[4], arg[5], arg[6])

\* C11: max() and min() of every unit are computed without any year value
\* leaving the year width; max() keeps the year max_year and, as a
\* civil_second, the fields 12-31 23:59:59; min() keeps the year min_year
\* and the fields 01-01 00:00:00; and min() < max() in every unit.
C11_MinMaxNoOverflow ==
  /\ op = "max" =>
       /\ \A v \in ConstructTrace.yvals : InDiff(v)
       /\ r.y = diff_max
       /\ (tr = "second" => AsTuple(r) = <<diff_max, 12, 31, 23, 59, 59>>)
       /\ Lt(min(tr), r)
  /\ op = "min" =>
       /\ \A v \in ConstructTrace.yvals : InDiff(v)
       /\ AsTuple(r) = <<diff_min, 1, 1, 0, 0, 0>>
       /\ Lt(r, max(tr))

C11_Witness ==
  /\ op = "max"
  /\ tr = "second"
  /\ ConstructTrace.nday = <<diff_max, 12, 31, 0>>

\* the trace of the step that Plus applied to a
PlusTrace == step_trace(ta, a, arg[1])

\* the year delta n_day accumulated for the arguments it was reached with
NetYearDelta(nday) ==
  n_day_run(nday[1], nday[2], nday[3], nday[4]).ey
  - n_day_run(nday[1], nday[2], nday[3], nday[4]).oey

\* C12: for a normalized value a of any unit and a count n for which the
\* exact a + n has a year inside the year width, step and the normalization
\* it runs compute no integer outside the signed width; where n_day is
\* reached the year of the result is the year n_day was given plus the net
\* year delta ey - oey, added once.
C12_StepNoOverflow ==
  op = "plus" =>
    /\ \A v \in PlusTrace.ints : InDiff(v)
    /\ PlusTrace.nday # <<>> =>
         /\ InDiff(NetYearDelta(PlusTrace.nday))
         /\ r.y = PlusTrace.nday[1] + NetYearDelta(PlusTrace.nday)

C12_Witness ==
  /\ op = "plus"
  /\ a.y = diff_max
  /\ tr = "hour"
  /\ r.y < a.y
  /\ PlusTrace.nday # <<>>

(***************************************************************************)
(* Construction at the ends of the year width, as a call and its outcome:  *)
(* the call returns the normalized value when none of its expressions      *)
(* overflows, and has undefined behaviour, leaving no value, when one does.*)
(***************************************************************************)

\* raw constructor arguments at the ends of the year width
EdgeYears  == {diff_min, diff_min + 1, diff_max - 1, diff_max}
EdgeMonths == {-11, 0, 1, 12, 13, 24}
EdgeDays   == {-400, -30, 0, 1, 31, 32, 400}
EdgeClocks == {<<0, 0, 0>>, <<-1, 0, 0>>, <<24, 0, 0>>, <<23, 59, 60>>}

EdgeInputs ==
  {<<y, m, d, c[1], c[2], c[3]>> :
     y \in EdgeYears, m \in EdgeMonths, d \in EdgeDays, c \in EdgeClocks}

\* civil_time<T>(y, m, d, hh, mm, ss) entered, n_sec not yet run
InitCall ==
  /\ tr \in Tags
  /\ ta = tr
  /\ arg \in EdgeInputs
  /\ r = civil_time_default
  /\ a = r
  /\ op = "call"
  /\ res = 0
  /\ wday = "monday"
  /\ rel = NoRel

\* n_sec runs to its return: every expression stays inside the width
Return ==
  /\ op = "call"
  /\ \A v \in ConstructTrace.ints : InDiff(v)
  /\ r' = civil_time(tr, arg[1], arg[2], arg[3], arg[4], arg[5], arg[6])
  /\ a' = r'
  /\ op' = "construct"
  /\ UNCHANGED <<ta, tr, arg, res, wday, rel>>

\* an expression of n_sec or of a function it calls overflows
Overflow ==
  /\ op = "call"
  /\ \E v \in ConstructTrace.ints : ~InDiff(v)
  /\ op' = "overflow"
  /\ UNCHANGED <<a, ta, r, tr, arg, res, wday, rel>>

NextCall == Return \/ Overflow

SpecCall == InitCall /\ [][NextCall]_vars

\* the year of the exact normalized value of the arguments in arg
ExactYear ==
  civil_time(tr, arg[1], arg[2], arg[3], arg[4], arg[5], arg[6]).y

\* C13: construction from raw fields overflows only when the year of the
\* exact normalized result lies outside the year width: whenever that year
\* is representable no year computation of n_sec, n_min, n_hour, n_mon and
\* n_day leaves the width, also when the raw month pushes the year one way
\* and the raw day or time fields pull it back.
C13_SingleFailureMode ==
  op = "overflow" => ~InDiff(ExactYear)

(***************************************************************************)
(* The loops of n_day.                                                     *)
(***************************************************************************)

\* the arguments the last constructor or step handed to n_day, <<>> if none
NDayCall ==
  CASE op \in {"construct", "max", "min"} -> ConstructTrace.nday
    [] op = "plus" -> PlusTrace.nday
    [] op = "minus" /\ arg[1] # diff_min -> step_trace(ta, a, -arg[1]).nday
    [] OTHER -> <<>>

\* the local state n_day returns with for these arguments
NDayRun == n_day_run(NDayCall[1], NDayCall[2], NDayCall[3], NDayCall[4])

\* C14: whatever the magnitude of the year, the day and the day carry,
\* n_day ends with the century loop advanced at most 4 times, the 4-year
\* loop at most 25 times, the single-year loop at most 4 times and the
\* month loop at most 11 times, and the day count it has on reaching the
\* century loop is in [1, 146097].
C14_LoopBounds ==
  NDayCall # <<>> =>
    LET s == NDayRun
    IN  /\ s.c_it <= 4
        /\ s.q_it <= 25
        /\ s.y_it <= 4
        /\ s.m_it <= 11
        /\ s.entry \in 1..146097

C14_Witness ==
  /\ NDayCall # <<>>
  /\ NDayRun.entry = 146097
  /\ NDayRun.c_it = 3
  /\ NDayRun.q_it = 24
  /\ NDayRun.y_it = 3
  /\ NDayRun.m_it = 11

(***************************************************************************)
(* The two-cycle correction of day_difference.                             *)
(***************************************************************************)

\* the units whose difference calls day_difference
DayDifferenceTags == {"day", "hour", "minute", "second"}

\* the local state day_difference(r, a) returns with
DiffRun == day_difference_run(r.y, r.m, r.d, a.y, a.m, a.d)

\* one accumulator strictly positive and the other strictly negative
OppositeSigns(c4_diff, delta) ==
  \/ c4_diff > 0 /\ delta < 0
  \/ c4_diff < 0 /\ delta > 0

\* C15 as claimed: whenever day_difference applies the two-cycle correction
\* to two normalized dates, afterwards c4_diff and delta no longer have
\* opposite signs and c4_diff / 400 * 146097 + delta is the exact number of
\* days between the dates.
C15_CorrectionAlignsSigns ==
  (op = "difference" /\ tr \in DayDifferenceTags /\ DiffRun.fixed) =>
    /\ ~OppositeSigns(DiffRun.c4_diff, DiffRun.delta)
    /\ day_difference_return(DiffRun) = RefDayDiff(r, a)

\* C15 amended: whenever day_difference applies the two-cycle correction to
\* two normalized dates, afterwards delta has the sign c4_diff had before,
\* c4_diff and delta have opposite signs again only if c4_diff was exactly
\* one cycle (400 or -400), and c4_diff / 400 * 146097 + delta is the exact
\* number of days between the dates.
C15_CorrectionExact ==
  (op = "difference" /\ tr \in DayDifferenceTags /\ DiffRun.fixed) =>
    LET s == DiffRun
    IN  /\ OppositeSigns(s.c4_diff0, s.delta0)
        /\ s.c4_diff0 > 0 => s.delta > 0
        /\ s.c4_diff0 < 0 => s.delta < 0
        /\ OppositeSigns(s.c4_diff, s.delta) => s.c4_diff0 \in {400, -400}
        /\ s.c4_diff0 \notin {400, -400} => ~OppositeSigns(s.c4_diff, s.delta)
        /\ day_difference_return(s) = RefDayDiff(r, a)

\* the correction turns c4_diff = 400, delta < 0 into c4_diff = -400, delta > 0
C15_Witness ==
  /\ op = "difference"
  /\ tr = "day"
  /\ DiffRun.fixed
  /\ DiffRun.c4_diff0 = 400
  /\ DiffRun.c4_diff = -400
  /\ DiffRun.delta > 0

====
